---- MODULE Spec2Model ----
(***************************************************************************)
(* AlignableModel (models/alignable_base.py): the intervention              *)
(* orchestrator.  The model covers construction (key registry, ordering),  *)
(* the hook callbacks, forward, generate, _batch_process_unit_location and  *)
(* the loop of find_alignment.  A top-level call is split at                *)
(* its opaque-model invocations: every state with pc # "idle" is the        *)
(* moment just before one invocation, and one action performs that          *)
(* invocation (firing the attached hooks) and then runs the code up to the  *)
(* next invocation, the return or the raise.                                *)
(***************************************************************************)
EXTENDS Integers, Sequences, FiniteSets, TLC

(* ------------------------------ bounds -------------------------------- *)
\* largest number of representations given to the constructor
MaxPoints == 2
\* largest number of forward passes one model.generate invocation makes
MaxDecodeSteps == 2
\* largest number of times the opaque model runs one hooked module
MaxHookCalls == 3
\* find_alignment: largest epochs, len(train_dataloader) and
\* gradient_accumulation_steps
MaxEpochs == 2
MaxBatches == 3
MaxAccumulation == 3

(* ------------------------ configuration values ------------------------ *)
None == "None"
Modes == {"parallel", "serial"}

\* Representation descriptors the constructor may be given.  Two share the
\* layer and differ in the unit, one lies on a later layer, so registration
\* order can differ from execution order and descriptors can collide.
Representations ==
    { [alignable_layer |-> 1, alignable_representation_type |-> "block_output",
       alignable_unit |-> "pos", max_number_of_units |-> 1],
      [alignable_layer |-> 0, alignable_representation_type |-> "block_output",
       alignable_unit |-> "h.pos", max_number_of_units |-> 1] }

\* Python's None where an output is expected
NoOutput == [on |-> None, edits |-> {}]
NothingFound == [hooks |-> FALSE, cache |-> FALSE, counters |-> FALSE,
                 is_generation |-> FALSE]
NoCall == [fn |-> None, has_sources |-> FALSE, sources |-> 0, acts |-> FALSE,
           locs |-> {}, intervene_on_prompt |-> TRUE,
           key_i |-> 0, all_set_handlers |-> {}, base_outputs |-> NoOutput,
           passed |-> {}, found |-> NothingFound]
NoOutcome == [status |-> "none", error |-> None, ret |-> << NoOutput, NoOutput >>,
              call |-> NoCall]
\* find_alignment has not been called
NoTraining == [at |-> "none", gradient_accumulation_steps |-> 1, epochs |-> 0,
               batches |-> 0, epoch |-> 0, step |-> 0, total_step |-> 0,
               updates |-> << >>, error |-> None]

VARIABLES
    pc,                          \* "construct", "idle", the pending invocation, "done"
    mode,                        \* self.mode
    alignable_representations,   \* dict in insertion order: Seq of [key, rep]
    key_collision_counter,       \* self._key_collision_counter
    sorted_alignable_keys,       \* self.sorted_alignable_keys
    is_generation,               \* self._is_generation
    intervene_on_prompt,         \* self._intervene_on_prompt
    key_getter_call_counter,     \* self._key_getter_call_counter
    key_setter_call_counter,     \* self._key_setter_call_counter
    hooks,                       \* hooks attached to the opaque model
    own_activations,             \* the dict created at construction for self.activations
    activations_sources,         \* the caller's mapping object
    activations_is_sources,      \* self.activations is bound to the caller's mapping
    call,                        \* arguments and locals of the call in progress
    written,                     \* cache keys written during the current call
    runs,                        \* the opaque-model invocations of the current call
    outcome,                     \* how the last call ended
    training                     \* find_alignment: its arguments, loop position and log

vars == << pc, mode, alignable_representations, key_collision_counter,
           sorted_alignable_keys, is_generation, intervene_on_prompt,
           key_getter_call_counter, key_setter_call_counter, hooks,
           own_activations, activations_sources, activations_is_sources,
           call, written, runs, outcome, training >>

(* ----------------------------- small helpers -------------------------- *)
Range(f) == { f[x] : x \in DOMAIN f }
EmptyMap == [x \in {} |-> 0]
MapPut(f, k, v) == [x \in (DOMAIN f) \cup {k} |-> IF x = k THEN v ELSE f[x]]

\* the keys registered so far, in registration order
RegisteredKeys == { alignable_representations[i].key : i \in DOMAIN alignable_representations }
RepOf(key) ==
    (CHOOSE e \in Range(alignable_representations) : e.key = key).rep
NumPoints == Len(sorted_alignable_keys)
IndexOf(key) == CHOOSE i \in DOMAIN sorted_alignable_keys : sorted_alignable_keys[i] = key

(* ------------------------------ key registry -------------------------- *)
\* f"layer.{l}.repr.{r}.unit.{u}.nunit.{n}"
KeyProposal(representation) ==
    "layer." \o ToString(representation.alignable_layer)
    \o ".repr." \o representation.alignable_representation_type
    \o ".unit." \o representation.alignable_unit
    \o ".nunit." \o ToString(representation.max_number_of_units)

\* a registry that never counts a collision
CollisionCounterNeverIncrements(counter, representation) ==
    MapPut(counter, KeyProposal(representation), 0)

\* the counter map after _get_representation_key(representation)
CollisionCounterAfter(counter, representation) ==
    LET key_proposal == KeyProposal(representation) IN
    IF key_proposal \notin DOMAIN counter
    THEN MapPut(counter, key_proposal, 0)
    ELSE MapPut(counter, key_proposal, counter[key_proposal] + 1)

\* the key _get_representation_key(representation) returns
GetRepresentationKey(counter, representation) ==
    KeyProposal(representation) \o "#"
    \o ToString(CollisionCounterAfter(counter, representation)[KeyProposal(representation)])

\* sort_alignables_by_topological_order: keys by the execution position of
\* their module (the layer), registration order among equals
RECURSIVE SortByTopologicalOrder(_)
SortByTopologicalOrder(entries) ==
    IF entries = << >> THEN << >>
    ELSE LET least == CHOOSE i \in DOMAIN entries :
                        \A j \in DOMAIN entries :
                            \/ entries[i].rep.alignable_layer < entries[j].rep.alignable_layer
                            \/ /\ entries[i].rep.alignable_layer = entries[j].rep.alignable_layer
                               /\ i <= j
             rest == [k \in 1..(Len(entries) - 1) |->
                        IF k < least THEN entries[k] ELSE entries[k + 1]]
         IN << entries[least].key >> \o SortByTopologicalOrder(rest)

(* --------------------------- the program state ------------------------ *)
\* The mutable state of the orchestrator, of the opaque model's hook tables
\* and of the running call, as one record the operators below transform.
\*   edits : what the setters have patched in during the current forward pass
\*   out   : the output of the current invocation (every edit of its passes)
\*   reads : the cache reads the setters made during the current invocation
Cur ==
    [ hooks |-> hooks,
      own_activations |-> own_activations,
      activations_sources |-> activations_sources,
      activations_is_sources |-> activations_is_sources,
      getter_counter |-> key_getter_call_counter,
      setter_counter |-> key_setter_call_counter,
      is_generation |-> is_generation,
      intervene_on_prompt |-> intervene_on_prompt,
      written |-> written,
      call |-> call,
      pc |-> pc,
      error |-> None,
      ret |-> << NoOutput, NoOutput >>,
      edits |-> {},
      out |-> {},
      reads |-> {} ]

\* self.activations: the dict it is bound to
Activations(m) ==
    IF m.activations_is_sources THEN m.activations_sources ELSE m.own_activations

\* self.activations[key] = value
SetActivation(m, key, value) ==
    IF m.activations_is_sources
    THEN [m EXCEPT !.activations_sources = MapPut(@, key, value),
                   !.written = @ \cup {key}]
    ELSE [m EXCEPT !.own_activations = MapPut(@, key, value),
                   !.written = @ \cup {key}]

\* an exception leaves the call: the frame is gone, everything else stays
Raise(m, e) == [m EXCEPT !.pc = "done", !.error = e]
\* return value
Return(m, value) == [m EXCEPT !.pc = "done", !.ret = value]

(* --------------------------------- hooks ------------------------------ *)
\* A registered callback: the module it is registered on (the module of key
\* `at`), the key its closure reads, and whether the current call registered it.
Hook(kind, at, key) == [kind |-> kind, at |-> at, key |-> key, cur |-> TRUE]

\* remove_forward_hooks(model): pops every forward and pre-forward hook
remove_forward_hooks(hs) == {}

\* HandlerList.remove(): removes exactly the handles of the list
HandlerListRemove(m, handles) == [m EXCEPT !.hooks = @ \ handles]

\* alignable_module_hook(hook_callback, with_kwargs=True) for every handle
RegisterHandles(m, handles) == [m EXCEPT !.hooks = @ \cup handles]

\* _intervention_getter(alignable_keys, unit_locations): one callback per
\* key, registered on that key's module; the callbacks close over the loop
\* variable `key`, which holds the last key of the list once they run.
InterventionGetter(alignable_keys) ==
    { Hook("getter", alignable_keys[i], alignable_keys[Len(alignable_keys)]) :
        i \in DOMAIN alignable_keys }

\* _intervention_setter(alignable_keys, ...): likewise
InterventionSetter(alignable_keys) ==
    { Hook("setter", alignable_keys[i], alignable_keys[Len(alignable_keys)]) :
        i \in DOMAIN alignable_keys }

(* ------------------------------- cleanup ------------------------------ *)
\* _reset_hook_count
ResetHookCount(m) ==
    [m EXCEPT !.getter_counter = [k \in DOMAIN @ |-> 0],
              !.setter_counter = [k \in DOMAIN @ |-> 0]]

\* _remove_forward_hooks
RemoveForwardHooks(m) == [m EXCEPT !.hooks = remove_forward_hooks(@)]

\* self.activations.clear(): empties the dict self.activations is bound to
ClearActivations(m) ==
    IF m.activations_is_sources
    THEN [m EXCEPT !.activations_sources = EmptyMap]
    ELSE [m EXCEPT !.own_activations = EmptyMap]

\* a cleanup that forgets _reset_hook_count
CleanupStatesNoCounterReset(m) ==
    ClearActivations(RemoveForwardHooks([m EXCEPT !.is_generation = FALSE]))

\* a cleanup that leaves the generation flag as it finds it
CleanupStatesKeepGeneration(m) ==
    ClearActivations(ResetHookCount(RemoveForwardHooks(m)))

\* _cleanup_states
CleanupStates(m) ==
    ClearActivations(
        ResetHookCount(
            RemoveForwardHooks([m EXCEPT !.is_generation = FALSE])))

\* A new top-level call begins: what earlier calls registered or wrote is no
\* longer "of the current call".  The call's record keeps what the call found
\* (found) and the keys of the mapping the caller passed (passed).
BeginCall(m, args) ==
    [m EXCEPT !.hooks = { [h EXCEPT !.cur = FALSE] : h \in @ },
              !.written = {},
              !.call = [args EXCEPT
                  !.passed = IF args.acts THEN DOMAIN m.activations_sources ELSE {},
                  !.found = [hooks |-> m.hooks # {},
                             cache |-> DOMAIN Activations(m) # {},
                             counters |->
                                 \E k \in DOMAIN m.getter_counter :
                                     m.getter_counter[k] + m.setter_counter[k] > 0,
                             is_generation |-> m.is_generation]]]

(* ------------------------------ callbacks ----------------------------- *)
\* what a getter gathers from the module output while the model runs on
\* input `on`: it depends on the input and on the setters that have already
\* patched this forward pass
Gathered(m, on) ==
    [origin |-> "getter", src |-> on, under |-> { e.at : e \in m.edits }]

\* a gate that counts every invocation made in generation mode
GateCountEveryCall(m, counter, key) ==
    IF m.is_generation
    THEN [m EXCEPT ![counter][key] = @ + 1]
    ELSE m

\* the prompt/step gate both callbacks open with; counter is the name of the
\* counter map ("getter_counter" or "setter_counter")
GateCount(m, counter, key) ==
    IF m.is_generation
       /\ ((~ m.intervene_on_prompt) \/ m[counter][key] = 0)
    THEN [m EXCEPT ![counter][key] = @ + 1]
    ELSE m

\* self._intervene_on_prompt ^ is_prompt, evaluated before the counter moves
GateNoOp(m, counter, key) ==
    m.is_generation /\ (m.intervene_on_prompt # (m[counter][key] = 0))

\* _intervention_getter.hook_callback
GetterCallback(m, h, on) ==
    IF GateNoOp(m, "getter_counter", h.key)
    THEN GateCount(m, "getter_counter", h.key)
    ELSE SetActivation(GateCount(m, "getter_counter", h.key), h.key, Gathered(m, on))

\* a setter that falls back on a default value when the cache has no entry
SetterCallbackDefaultOnMiss(m, h) ==
    IF GateNoOp(m, "setter_counter", h.key)
    THEN GateCount(m, "setter_counter", h.key)
    ELSE LET g == GateCount(m, "setter_counter", h.key)
             present == h.key \in DOMAIN Activations(g)
             read == [key |-> h.key, cur |-> h.cur, present |-> present,
                      fresh |-> h.key \in g.written,
                      value |-> IF present THEN Activations(g)[h.key] ELSE None]
         IN [g EXCEPT !.reads = @ \cup {read},
                      !.edits = @ \cup {[at |-> h.at, key |-> h.key,
                                         value |-> IF present THEN read.value
                                                   ELSE [origin |-> "default",
                                                         src |-> h.key,
                                                         under |-> {}]]}]

\* _intervention_setter.hook_callback: self.activations[key] raises KeyError
\* when the key is absent, else the transform's result is scattered back
SetterCallback(m, h) ==
    IF GateNoOp(m, "setter_counter", h.key)
    THEN GateCount(m, "setter_counter", h.key)
    ELSE LET g == GateCount(m, "setter_counter", h.key)
             present == h.key \in DOMAIN Activations(g)
             read == [key |-> h.key, cur |-> h.cur, present |-> present,
                      fresh |-> h.key \in g.written,
                      value |-> IF present THEN Activations(g)[h.key] ELSE None]
         IN IF ~ present
            THEN [g EXCEPT !.error = "KeyError", !.reads = @ \cup {read}]
            ELSE [g EXCEPT !.reads = @ \cup {read},
                           !.edits = @ \cup {[at |-> h.at, key |-> h.key,
                                              value |-> Activations(g)[h.key]]}]

FireHook(m, h, on) ==
    IF h.kind = "getter" THEN GetterCallback(m, h, on) ELSE SetterCallback(m, h)

(* ------------------------- opaque-model invocations -------------------- *)
\* Position of a hook in one forward pass: modules run in layer order; hooks
\* on one module fire in registration order (hooks left by an earlier call
\* were registered first; within a call registration follows the key order).
FireRank(h) ==
    ((RepOf(h.at).alignable_layer * 2 + (IF h.cur THEN 1 ELSE 0))
        * (Len(alignable_representations) + 1) + IndexOf(h.at)) * 2
    + (IF h.kind = "getter" THEN 1 ELSE 0)

RECURSIVE FireAll(_, _, _)
FireAll(m, todo, on) ==
    IF todo = {} \/ m.error # None THEN m
    ELSE LET h == CHOOSE x \in todo : \A y \in todo : FireRank(x) <= FireRank(y)
         IN FireAll(FireHook(m, h, on), todo \ {h}, on)

\* one forward pass of the opaque model on `on`: every attached hook fires
ForwardPass(m, on) ==
    LET r == FireAll([m EXCEPT !.edits = {}], m.hooks, on)
    IN [r EXCEPT !.out = @ \cup r.edits]

\* self.model(**x) is one forward pass; self.model.generate(...) makes
\* `passes` of them (the prompt, then one per decoded token)
RECURSIVE ModelPasses(_, _, _)
ModelPasses(m, on, passes) ==
    IF passes = 0 \/ m.error # None THEN m
    ELSE ModelPasses(ForwardPass(m, on), on, passes - 1)

\* the record kept of one invocation
RunRecord(m, on, after) ==
    [on |-> on, generate |-> m.call.fn = "generate" /\ on = "base",
     hooks |-> m.hooks, reads |-> after.reads, out |-> after.out,
     before |-> [activations |-> Activations(m),
                 getter_counter |-> m.getter_counter,
                 setter_counter |-> m.setter_counter],
     after |-> [activations |-> Activations(after),
                getter_counter |-> after.getter_counter,
                setter_counter |-> after.setter_counter],
     raised |-> after.error # None]

(* --------------------------- forward / generate ------------------------ *)
\* input names: base, and sources[key_i]
SourceName(key_i) == "source_" \o ToString(key_i)

\* the location key serial mode looks up for point key_i (0-based)
SerialLocationKey(key_i) ==
    IF key_i # NumPoints - 1
    THEN "source_" \o ToString(key_i) \o "->source_" \o ToString(key_i + 1)
    ELSE "source_" \o ToString(key_i) \o "->base"

\* `subspaces` is a parameter of forward; generate has no such parameter and
\* no such name is in scope there, so evaluating it raises NameError
SubspacesInScope(fn) == fn = "forward"

\* a count check that looks at sources only
CountRejectedSourcesOnly(m) ==
    m.call.has_sources /\ m.call.sources # NumPoints

\* lines 501-504 / 645-648: the count assertions fail
CountRejected(m) ==
    IF m.call.has_sources
    THEN m.call.sources # NumPoints
    ELSE Cardinality(DOMAIN m.activations_sources) # NumPoints

\* lines 506-512 / 650-656: the location-map assertions fail
LocationMapRejected(m) ==
    IF mode = "parallel"
    THEN "sources->base" \notin m.call.locs
    ELSE IF ~ m.call.acts /\ mode = "serial"
    THEN \/ "sources->base" \in m.call.locs
         \/ m.call.sources # Cardinality(m.call.locs)
    ELSE FALSE

\* lines 629-637: generate enters generation mode after its cleanup
EnterGeneration(m) ==
    IF m.call.fn = "generate"
    THEN [m EXCEPT !.intervene_on_prompt = m.call.intervene_on_prompt,
                   !.is_generation = TRUE]
    ELSE m

\* a prologue that forgets self._cleanup_states()
PrologueNoCleanup(m0) ==
    LET m == EnterGeneration(m0)
    IN  IF ~ m.call.has_sources /\ ~ m.call.acts THEN [m EXCEPT !.pc = "plain"]
        ELSE IF CountRejected(m) THEN Raise(m, "AssertionError")
        ELSE IF LocationMapRejected(m) THEN Raise(m, "AssertionError")
        ELSE [m EXCEPT !.pc = "base"]

\* lines 495-512 / 629-656: cleanup, the pass-through test and the
\* validation, up to the first opaque-model invocation
Prologue(m0) ==
    LET m == EnterGeneration(CleanupStates(m0))
    IN  IF ~ m.call.has_sources /\ ~ m.call.acts THEN [m EXCEPT !.pc = "plain"]
        ELSE IF CountRejected(m) THEN Raise(m, "AssertionError")
        ELSE IF LocationMapRejected(m) THEN Raise(m, "AssertionError")
        ELSE [m EXCEPT !.pc = "base"]

\* a getter always attached for the first key
AttachGetterFirstKey(m, key_i) ==
    [RegisterHandles(m, InterventionGetter(<< sorted_alignable_keys[1] >>))
        EXCEPT !.call.key_i = key_i, !.pc = "source"]

\* get_handlers = self._intervention_getter([alignable_key], ...), then the
\* call reaches self.model(**sources[key_i])
AttachGetter(m, key_i) ==
    [RegisterHandles(m, InterventionGetter(<< sorted_alignable_keys[key_i + 1] >>))
        EXCEPT !.call.key_i = key_i, !.pc = "source"]

\* all_set_handlers assigned instead of extended: it holds the last setter only
ParallelSettersKeepLast(m) ==
    IF ~ SubspacesInScope(m.call.fn) THEN Raise(m, "NameError")
    ELSE LET handles == UNION { InterventionSetter(<< sorted_alignable_keys[i] >>) :
                                  i \in 1..NumPoints }
         IN [RegisterHandles(m, handles)
                EXCEPT !.call.all_set_handlers =
                           InterventionSetter(<< sorted_alignable_keys[NumPoints] >>),
                       !.pc = "cf"]

\* the parallel setter loop (lines 540-548 / 687-695), up to the
\* counterfactual invocation
ParallelSetters(m) ==
    IF ~ SubspacesInScope(m.call.fn) THEN Raise(m, "NameError")
    ELSE LET handles == UNION { InterventionSetter(<< sorted_alignable_keys[i] >>) :
                                  i \in 1..NumPoints }
         IN [RegisterHandles(m, handles)
                EXCEPT !.call.all_set_handlers = @ \cup handles, !.pc = "cf"]

\* parallel mode with precomputed activations (lines 532-536 / 679-683)
ParallelPatchIn(m) ==
    LET p == [m EXCEPT !.activations_is_sources = TRUE,
                       !.written = DOMAIN m.activations_sources]
    IN IF \E i \in 1..NumPoints : sorted_alignable_keys[i] \notin DOMAIN Activations(p)
       THEN Raise(p, "AssertionError")
       ELSE ParallelSetters(p)

\* the serial loop from iteration key_i on, up to the next invocation
\* (lines 553-588 / 703-738)
RECURSIVE SerialFrom(_, _)
\* a serial iteration whose setter is listed but never registered
SerialSetterNotRegistered(m, key_i) ==
    IF ~ SubspacesInScope(m.call.fn) THEN Raise(m, "NameError")
    ELSE LET handles == InterventionSetter(<< sorted_alignable_keys[key_i + 1] >>)
         IN SerialFrom([m EXCEPT !.call.all_set_handlers = @ \cup handles],
                       key_i + 1)

\* the end of one serial iteration: attach the setter of point key_i
SerialSetter(m, key_i) ==
    IF ~ SubspacesInScope(m.call.fn) THEN Raise(m, "NameError")
    ELSE LET handles == InterventionSetter(<< sorted_alignable_keys[key_i + 1] >>)
         IN SerialFrom([RegisterHandles(m, handles)
                           EXCEPT !.call.all_set_handlers = @ \cup handles],
                       key_i + 1)

SerialFrom(m, key_i) ==
    IF key_i >= NumPoints THEN [m EXCEPT !.pc = "cf"]
    ELSE IF SerialLocationKey(key_i) \notin m.call.locs THEN Raise(m, "KeyError")
    ELSE IF ~ m.call.acts THEN AttachGetter(m, key_i)
    ELSE LET alignable_key == sorted_alignable_keys[key_i + 1] IN
         IF alignable_key \notin DOMAIN m.activations_sources
         THEN Raise(m, "KeyError")
         ELSE SerialSetter(
                 SetActivation(m, alignable_key, m.activations_sources[alignable_key]),
                 key_i)

\* after the baseline invocation (lines 518-530 / 662-677)
AfterBase(m) ==
    LET b == [m EXCEPT !.call.base_outputs = [on |-> "base", edits |-> m.out],
                       !.call.all_set_handlers = {}]
    IN IF mode = "parallel"
       THEN IF ~ b.call.acts THEN AttachGetter(b, 0) ELSE ParallelPatchIn(b)
       ELSE SerialFrom(b, 0)

\* a source run after which get_handlers.remove() is forgotten
AfterSourceKeepGetter(m) ==
    LET key_i == m.call.key_i
    IN IF mode = "parallel"
       THEN IF key_i + 1 < NumPoints THEN AttachGetter(m, key_i + 1)
            ELSE ParallelSetters(m)
       ELSE SerialSetter(
               [HandlerListRemove(m, m.call.all_set_handlers)
                   EXCEPT !.call.all_set_handlers = {}],
               key_i)

\* after self.model(**sources[key_i]) (lines 531 / 572-588)
AfterSource(m) ==
    LET key_i == m.call.key_i
        g == HandlerListRemove(m, InterventionGetter(<< sorted_alignable_keys[key_i + 1] >>))
    IN IF mode = "parallel"
       THEN IF key_i + 1 < NumPoints THEN AttachGetter(g, key_i + 1)
            ELSE ParallelSetters(g)
       ELSE SerialSetter(
               [HandlerListRemove(g, g.call.all_set_handlers)
                   EXCEPT !.call.all_set_handlers = {}],
               key_i)

\* a return that forgets all_set_handlers.remove()
AfterCounterfactualKeepSetters(m) ==
    LET e == IF m.call.fn = "generate" THEN [m EXCEPT !.is_generation = FALSE] ELSE m
    IN Return(e, << e.call.base_outputs, [on |-> "base", edits |-> e.out] >>)

\* after the counterfactual invocation (lines 549-592 / 696-745)
AfterCounterfactual(m) ==
    LET r == HandlerListRemove(m, m.call.all_set_handlers)
        e == IF r.call.fn = "generate" THEN [r EXCEPT !.is_generation = FALSE] ELSE r
    IN Return(e, << e.call.base_outputs, [on |-> "base", edits |-> e.out] >>)

\* a pass-through that returns the pair the wrong way round
AfterPlainSwapped(m) ==
    Return(m, << NoOutput, [on |-> "base", edits |-> m.out] >>)

\* the pass-through return (line 499 / 640-643)
AfterPlain(m) ==
    Return(m, << [on |-> "base", edits |-> m.out], NoOutput >>)

(* ------------------------------ construction -------------------------- *)
Init ==
    /\ pc = "construct"
    /\ mode \in Modes
    /\ alignable_representations = << >>
    /\ key_collision_counter = EmptyMap
    /\ sorted_alignable_keys = << >>
    /\ is_generation = FALSE
    /\ intervene_on_prompt = None
    /\ key_getter_call_counter = EmptyMap
    /\ key_setter_call_counter = EmptyMap
    /\ hooks = {}
    /\ own_activations = EmptyMap
    /\ activations_sources = EmptyMap
    /\ activations_is_sources = FALSE
    /\ call = NoCall
    /\ written = {}
    /\ runs = << >>
    /\ outcome = NoOutcome
    /\ training = NoTraining

\* one iteration of the constructor's loop over alignable_representations
Register(representation) ==
    /\ pc = "construct"
    /\ Len(alignable_representations) < MaxPoints
    /\ LET key == GetRepresentationKey(key_collision_counter, representation) IN
        /\ key_collision_counter' =
               CollisionCounterAfter(key_collision_counter, representation)
        /\ alignable_representations' =
               Append(alignable_representations, [key |-> key, rep |-> representation])
        /\ key_getter_call_counter' = MapPut(key_getter_call_counter, key, 0)
        /\ key_setter_call_counter' = MapPut(key_setter_call_counter, key, 0)
    /\ UNCHANGED << pc, mode, sorted_alignable_keys, is_generation,
                    intervene_on_prompt, hooks, own_activations,
                    activations_sources, activations_is_sources, call,
                    written, runs, outcome, training >>

\* the rest of the constructor, after the loop
FinishConstruction ==
    /\ pc = "construct"
    /\ Len(alignable_representations) >= 1
    /\ sorted_alignable_keys' = SortByTopologicalOrder(alignable_representations)
    /\ pc' = "idle"
    /\ UNCHANGED << mode, alignable_representations, key_collision_counter,
                    is_generation, intervene_on_prompt, key_getter_call_counter,
                    key_setter_call_counter, hooks, own_activations,
                    activations_sources, activations_is_sources, call,
                    written, runs, outcome, training >>

(* ------------------------------- the caller --------------------------- *)
\* a key no descriptor of this orchestrator produces
ForeignKey == "layer.9.repr.block_output.unit.pos.nunit.1#0"
\* a location key neither mode looks up
ForeignLocationKey == "source_" \o ToString(NumPoints) \o "->base"

\* the keys serial mode looks up
SerialLocationKeys == { SerialLocationKey(i) : i \in 0..(NumPoints - 1) }

\* The location maps a caller may pass, as the set of their keys.  In
\* parallel mode: with or without "sources->base" and a foreign key.  In
\* serial mode: the keys serial mode looks up, that set with "sources->base"
\* added, with one key missing, with one key replaced by a foreign key, and
\* the empty map.
LocationMaps ==
    IF mode = "parallel"
    THEN SUBSET {"sources->base", ForeignLocationKey}
    ELSE {SerialLocationKeys, SerialLocationKeys \cup {"sources->base"}, {}}
         \cup { SerialLocationKeys \ {k} : k \in SerialLocationKeys }
         \cup { (SerialLocationKeys \ {k}) \cup {ForeignLocationKey} :
                  k \in SerialLocationKeys }

\* The mappings a caller may pass as activations_sources, one entry per key
\* it holds: every registered key, a foreign key added, one key missing, one
\* key replaced by a foreign key.
SourceMappings ==
    { [k \in keys |-> [origin |-> "caller", src |-> k, under |-> {}]] :
        keys \in {RegisteredKeys, RegisteredKeys \cup {ForeignKey}}
                 \cup { RegisteredKeys \ {k} : k \in RegisteredKeys }
                 \cup { (RegisteredKeys \ {k}) \cup {ForeignKey} :
                          k \in RegisteredKeys } }

\* The arguments a caller may pass.  sources is the length of the list (as
\* many as there are points, or one more), has_sources whether it is given;
\* acts whether activations_sources is given.  forward has no
\* intervene_on_prompt, the pass-through needs no locations.
SourcesGiven == {NumPoints, NumPoints + 1}
CallArguments ==
    { [NoCall EXCEPT !.fn = "forward"] }
    \cup { [NoCall EXCEPT !.fn = "generate", !.intervene_on_prompt = iop] :
             iop \in BOOLEAN }
    \cup { [NoCall EXCEPT !.fn = "forward", !.has_sources = TRUE,
                          !.sources = n, !.locs = locs] :
             n \in SourcesGiven, locs \in LocationMaps }
    \cup { [NoCall EXCEPT !.fn = "generate", !.has_sources = TRUE,
                          !.sources = n, !.locs = locs,
                          !.intervene_on_prompt = iop] :
             n \in SourcesGiven, locs \in LocationMaps, iop \in BOOLEAN }
    \cup { [NoCall EXCEPT !.fn = "forward", !.has_sources = (n > 0),
                          !.sources = n, !.acts = TRUE, !.locs = locs] :
             n \in {0, NumPoints}, locs \in LocationMaps }
    \cup { [NoCall EXCEPT !.fn = "generate", !.has_sources = (n > 0),
                          !.sources = n, !.acts = TRUE, !.locs = locs,
                          !.intervene_on_prompt = iop] :
             n \in {0, NumPoints}, locs \in LocationMaps, iop \in BOOLEAN }

(* ------------------------------- the steps ----------------------------- *)
\* the variables take the values of the program state m; a call that has
\* ended leaves its outcome and drops its frame
Commit(m, log) ==
    /\ pc' = m.pc
    /\ hooks' = m.hooks
    /\ own_activations' = m.own_activations
    /\ activations_sources' = m.activations_sources
    /\ activations_is_sources' = m.activations_is_sources
    /\ key_getter_call_counter' = m.getter_counter
    /\ key_setter_call_counter' = m.setter_counter
    /\ is_generation' = m.is_generation
    /\ intervene_on_prompt' = m.intervene_on_prompt
    /\ written' = m.written
    /\ runs' = log
    /\ call' = IF m.pc = "done" THEN NoCall ELSE m.call
    /\ outcome' = IF m.pc = "done"
                  THEN [status |-> IF m.error # None THEN "raised" ELSE "returned",
                        error |-> m.error, ret |-> m.ret, call |-> m.call]
                  ELSE NoOutcome
    /\ UNCHANGED << mode, alignable_representations, key_collision_counter,
                    sorted_alignable_keys, training >>

\* forward(...) or generate(...) is called: the code up to the first
\* opaque-model invocation
Call(args) ==
    /\ pc = "idle"
    /\ ~ args.acts
    /\ \E m \in { Prologue(BeginCall(Cur, args)) } : Commit(m, << >>)

\* The same with activations_sources given: the caller passes a mapping it
\* has just built.  The object self.activations is still bound to is then no
\* longer the caller's concern.
CallWithActivations(args, mapping) ==
    /\ pc = "idle"
    /\ args.acts
    /\ \E m \in { Prologue(BeginCall(
                        [Cur EXCEPT !.own_activations = Activations(Cur),
                                    !.activations_sources = mapping,
                                    !.activations_is_sources = FALSE],
                        args)) } :
           Commit(m, << >>)

\* The caller passes again the mapping object it passed to an earlier call
\* and self.activations is still bound to.
CallWithSameActivations(args) ==
    /\ pc = "idle"
    /\ args.acts
    /\ activations_is_sources
    /\ \E m \in { Prologue(BeginCall(Cur, args)) } : Commit(m, << >>)

\* the code that follows the invocation that was pending at m.pc
Continue(m) ==
    CASE m.pc = "plain" -> AfterPlain(m)
      [] m.pc = "base" -> AfterBase(m)
      [] m.pc = "source" -> AfterSource(m)
      [] m.pc = "cf" -> AfterCounterfactual(m)

\* the caller has received the result or the exception of the call
ResultConsumed ==
    /\ pc = "done"
    /\ pc' = "idle"
    /\ runs' = << >>
    /\ outcome' = NoOutcome
    /\ written' = {}
    /\ activations_sources' =
           IF activations_is_sources THEN activations_sources ELSE EmptyMap
    /\ UNCHANGED << mode, alignable_representations, key_collision_counter,
                    sorted_alignable_keys, is_generation, intervene_on_prompt,
                    key_getter_call_counter, key_setter_call_counter, hooks,
                    own_activations, activations_is_sources, call, training >>

\* One opaque-model invocation on `on`, making `passes` forward passes, and
\* the code after it.  The opaque model may raise by itself, before any hook
\* has fired or after all have (model_raises).
Invocation(on, passes, model_raises) ==
    \E fired \in { IF model_raises = "before" THEN Cur
                    ELSE ModelPasses(Cur, on, passes) } :
    \E m \in { IF fired.error # None THEN Raise(fired, fired.error)
                ELSE IF model_raises # "no" THEN Raise(fired, "ModelError")
                ELSE Continue(fired) } :
        Commit(m, Append(runs, RunRecord(Cur, on,
                      IF model_raises = "no" THEN fired
                      ELSE [fired EXCEPT !.error = "ModelError"])))

\* how many forward passes the pending invocation on base may make
BasePasses == IF call.fn = "generate" THEN 1..MaxDecodeSteps ELSE {1}
ModelRaises == {"no", "before", "after"}

\* the pass-through invocation
PlainRun ==
    /\ pc = "plain"
    /\ \E passes \in BasePasses, r \in ModelRaises :
           Invocation("base", passes, r)

\* the baseline invocation
BaseRun ==
    /\ pc = "base"
    /\ \E passes \in BasePasses, r \in ModelRaises :
           Invocation("base", passes, r)

\* self.model(**sources[key_i]) with the getter of point key_i attached
SourceRun ==
    /\ pc = "source"
    /\ \E r \in ModelRaises :
           Invocation(SourceName(call.key_i), 1, r)

\* the counterfactual invocation
CounterfactualRun ==
    /\ pc = "cf"
    /\ \E passes \in BasePasses, r \in ModelRaises :
           Invocation("base", passes, r)

Next ==
    \/ \E representation \in Representations : Register(representation)
    \/ FinishConstruction
    \/ /\ pc = "idle"
       /\ \E args \in { a \in CallArguments : ~ a.acts } : Call(args)
    \/ /\ pc = "idle"
       /\ \E args \in { a \in CallArguments : a.acts } :
              \E mapping \in SourceMappings : CallWithActivations(args, mapping)
    \/ /\ pc = "idle"
       /\ activations_is_sources
       /\ \E args \in { a \in CallArguments : a.acts } :
              CallWithSameActivations(args)
    \/ ResultConsumed
    \/ PlainRun
    \/ BaseRun
    \/ SourceRun
    \/ CounterfactualRun

Spec == Init /\ [][Next]_vars

(* ------------------------- the callbacks by themselves ------------------ *)
\* The getter and setter callbacks are also exercised outside forward and
\* generate: after a cleanup, _intervention_getter([key], ...) or
\* _intervention_setter([key], ...) registers the callback of one key, with
\* the generation flag, the prompt switch and the cache in any of the states
\* the orchestrator's fields can hold, and the opaque model then runs the
\* hooked module any number of times.
CacheContents(key) ==
    { [k \in keys |-> [origin |-> "caller", src |-> k, under |-> {}]] :
        keys \in { {}, {key}, RegisteredKeys \ {key}, RegisteredKeys } }

HooksAttached(kind, key, generation, iop, cache) ==
    /\ pc = "idle"
    /\ LET c == CleanupStates(Cur)
           handles == IF kind = "getter" THEN InterventionGetter(<< key >>)
                      ELSE InterventionSetter(<< key >>)
       IN \E m \in { [RegisterHandles(c, handles)
                         EXCEPT !.pc = "hooked",
                                !.is_generation = generation,
                                !.intervene_on_prompt = iop,
                                !.own_activations = cache,
                                !.activations_sources = EmptyMap,
                                !.activations_is_sources = FALSE,
                                !.written = {},
                                !.call = NoCall] } :
              Commit(m, << >>)

\* the name of the input of the n-th run of the hooked module
PassName(n) == "pass_" \o ToString(n)

\* the opaque model runs the hooked module once more
HookedPass ==
    /\ pc = "hooked"
    /\ Len(runs) < MaxHookCalls
    /\ \E fired \in { ForwardPass(Cur, PassName(Len(runs) + 1)) } :
       \E m \in { IF fired.error # None THEN Raise(fired, fired.error) ELSE fired } :
           Commit(m, Append(runs, RunRecord(Cur, PassName(Len(runs) + 1), fired)))

CallbackNext ==
    \/ Next
    \/ /\ pc = "idle"
       /\ \E kind \in {"getter", "setter"}, key \in RegisteredKeys,
             generation \in BOOLEAN, iop \in BOOLEAN :
             \E cache \in CacheContents(key) :
                 HooksAttached(kind, key, generation, iop, cache)
    \/ HookedPass

CallbackSpec == Init /\ [][CallbackNext]_vars

(* ---------------------- callbacks of a list of keys --------------------- *)
\* _intervention_getter and _intervention_setter take a list of keys.  The
\* lists of distinct registered keys:
KeyLists ==
    { l \in UNION { [1..n -> RegisteredKeys] : n \in 1..Len(alignable_representations) } :
        \A i \in DOMAIN l, j \in DOMAIN l : i # j => l[i] # l[j] }

\* after a cleanup, _intervention_getter(alignable_keys, ...) or
\* _intervention_setter(alignable_keys, ...) registers the callbacks of the
\* whole list
HooksAttachedForKeys(kind, alignable_keys, generation, iop, cache) ==
    /\ pc = "idle"
    /\ LET c == CleanupStates(Cur)
           handles == IF kind = "getter" THEN InterventionGetter(alignable_keys)
                      ELSE InterventionSetter(alignable_keys)
       IN \E m \in { [RegisterHandles(c, handles)
                         EXCEPT !.pc = "hooked",
                                !.is_generation = generation,
                                !.intervene_on_prompt = iop,
                                !.own_activations = cache,
                                !.activations_sources = EmptyMap,
                                !.activations_is_sources = FALSE,
                                !.written = {},
                                !.call = NoCall] } :
              Commit(m, << >>)

KeyListNext ==
    \/ \E representation \in Representations : Register(representation)
    \/ FinishConstruction
    \/ /\ pc = "idle"
       /\ \E kind \in {"getter", "setter"}, alignable_keys \in KeyLists,
             generation \in BOOLEAN, iop \in BOOLEAN :
             \E cache \in CacheContents(alignable_keys[1]) :
                 HooksAttachedForKeys(kind, alignable_keys, generation, iop, cache)
    \/ HookedPass

KeyListSpec == Init /\ [][KeyListNext]_vars

(* ---------------------- _batch_process_unit_location ------------------- *)
\* Strings the function takes apart are sequences of tokens: the words
\* "source", "sources", "base", "input_ids", the level names, the separators
\* "_", "->", "." and decimal numbers.
RECURSIVE Join(_)
\* the string itself
Join(tokens) ==
    IF tokens = << >> THEN "" ELSE Head(tokens) \o Join(Tail(tokens))

\* str.split(sep): the pieces between the occurrences of sep
RECURSIVE Split(_, _)
Split(tokens, sep) ==
    IF \A n \in DOMAIN tokens : tokens[n] # sep THEN << tokens >>
    ELSE LET at == CHOOSE n \in DOMAIN tokens :
                      tokens[n] = sep /\ \A j \in 1..(n - 1) : tokens[j] # sep
         IN << SubSeq(tokens, 1, at - 1) >>
            \o Split(SubSeq(tokens, at + 1, Len(tokens)), sep)

\* sub in s, for a one-token sub
Contains(tokens, sub) == \E n \in DOMAIN tokens : tokens[n] = sub

\* the numbers that occur in the strings at hand
Numerals == { ToString(n) : n \in 0..(MaxPoints + 1) }
\* int(s) succeeds
IntParses(tokens) == Len(tokens) = 1 /\ tokens[1] \in Numerals

\* rep.alignable_unit as tokens
UnitTokens(unit) ==
    IF unit = "h.pos" THEN << "h", ".", "pos" >> ELSE << unit >>

\* f"{_prefix}.{side}.{sub_loc}"
FieldKey(prefix, side, sub_loc) ==
    prefix \o << ".", ToString(side), "." >> \o sub_loc

\* f"source_{i}->base"
ParallelPrefix(i) == << "source", "_", ToString(i), "->", "base" >>
\* lines 840-842: f"source_{i}->base" for the last point, else
\* f"source_{i}->source{i+1}"
SerialPrefix(i) ==
    IF i + 1 = Len(alignable_representations)
    THEN << "source", "_", ToString(i), "->", "base" >>
    ELSE << "source", "_", ToString(i), "->", "source", ToString(i + 1) >>

\* Python values: a batched index list taken from inputs[key], or a list
Batch(key) == [kind |-> "batch", of |-> key, items |-> << >>]
List(items) == [kind |-> "list", of |-> << >>, items |-> items]

\* lines 793-798: the errors the scan of the input keys can end with; which
\* one is raised depends on the order of the keys in the input
ScanErrors(inputs) ==
    LET subs == UNION { Range(Split(k, "->")) : k \in { x \in inputs : Contains(x, "->") } }
        named == { sub_k \in subs : Contains(sub_k, "source") }
        no_second_piece == { sub_k \in named : Len(Split(sub_k, "_")) < 2 }
        not_a_number == { sub_k \in named \ no_second_piece :
                            ~ IntParses(Split(sub_k, "_")[2]) }
    IN (IF no_second_piece # {} THEN {"IndexError"} ELSE {})
       \cup (IF not_a_number # {} \/ named = {} THEN {"ValueError"} ELSE {})

\* lines 818-824 / 845-853: _sub_loc_aggr_left (side 0) or _right (side 1)
SubLocAggr(prefix, side, rep) ==
    LET sub_locs == Split(UnitTokens(rep.alignable_unit), ".")
        aggr == [j \in DOMAIN sub_locs |-> Batch(FieldKey(prefix, side, sub_locs[j]))]
    IN IF Len(sub_locs) = 1 THEN aggr[1] ELSE List(aggr)

\* the input keys the loop over the representations reads with `prefix`
FieldsRead(prefix, rep) ==
    { FieldKey(prefix, side, sub_loc) :
        side \in {0, 1}, sub_loc \in Range(Split(UnitTokens(rep.alignable_unit), ".")) }

\* lines 806-833
BatchParallel(inputs) ==
    LET reps == alignable_representations
    IN IF \E i \in DOMAIN reps : ~ (FieldsRead(ParallelPrefix(i - 1), reps[i].rep) \subseteq inputs)
       THEN [error |-> "KeyError", ret |-> EmptyMap]
       ELSE [error |-> None,
             ret |-> [k \in { << "sources", "->", "base" >> } |->
                        << [i \in DOMAIN reps |-> SubLocAggr(ParallelPrefix(i - 1), 0, reps[i].rep)],
                           [i \in DOMAIN reps |-> SubLocAggr(ParallelPrefix(i - 1), 1, reps[i].rep)] >>]]

\* lines 835-859
BatchSerial(inputs) ==
    LET reps == alignable_representations
    IN IF \E i \in DOMAIN reps : ~ (FieldsRead(SerialPrefix(i - 1), reps[i].rep) \subseteq inputs)
       THEN [error |-> "KeyError", ret |-> EmptyMap]
       ELSE [error |-> None,
             ret |-> [k \in { SerialPrefix(i - 1) : i \in DOMAIN reps } |->
                        LET i == CHOOSE j \in DOMAIN reps : SerialPrefix(j - 1) = k
                        IN << List(<< SubLocAggr(k, 0, reps[i].rep) >>),
                              List(<< SubLocAggr(k, 1, reps[i].rep) >>) >>]]

\* how _batch_process_unit_location(inputs) can end: the error it raises
\* or the map it returns
BatchOutcomes(inputs) ==
    IF ScanErrors(inputs) # {}
    THEN { [error |-> e, ret |-> EmptyMap] : e \in ScanErrors(inputs) }
    ELSE IF mode = "parallel" THEN { BatchParallel(inputs) }
    ELSE { BatchSerial(inputs) }

\* _batch_process_unit_location(inputs)
BatchProcessUnitLocation(inputs) ==
    /\ pc = "idle"
    /\ \E r \in BatchOutcomes(inputs) :
          outcome' = [status |-> IF r.error # None THEN "raised" ELSE "returned",
                      error |-> r.error, ret |-> r.ret,
                      call |-> [fn |-> "_batch_process_unit_location",
                                inputs |-> inputs]]
    /\ pc' = "done"
    /\ UNCHANGED << mode, alignable_representations, key_collision_counter,
                    sorted_alignable_keys, is_generation, intervene_on_prompt,
                    key_getter_call_counter, key_setter_call_counter, hooks,
                    own_activations, activations_sources, activations_is_sources,
                    call, written, runs, training >>

\* the prefix the docstring and serial forward use for point i (0-based):
\* "source_i->source_{i+1}", and "source_i->base" for the last point
DocumentedSerialPrefix(i) ==
    IF i + 1 = Len(alignable_representations)
    THEN << "source", "_", ToString(i), "->", "base" >>
    ELSE << "source", "_", ToString(i), "->", "source", "_", ToString(i + 1) >>

\* the fields of a data batch for parallel mode, for serial mode as
\* documented, and for serial mode as the function reads them
ParallelFields ==
    UNION { FieldsRead(ParallelPrefix(i - 1), alignable_representations[i].rep) :
              i \in DOMAIN alignable_representations }
DocumentedSerialFields ==
    UNION { FieldsRead(DocumentedSerialPrefix(i - 1), alignable_representations[i].rep) :
              i \in DOMAIN alignable_representations }
SerialFieldsRead ==
    UNION { FieldsRead(SerialPrefix(i - 1), alignable_representations[i].rep) :
              i \in DOMAIN alignable_representations }

\* The data batches a caller may pass: one of the three sets of fields, that
\* set with one field missing, the parallel and the documented serial fields
\* together, each with or without a field that is no location.
BatchInputs ==
    LET full == { ParallelFields, DocumentedSerialFields, SerialFieldsRead,
                  ParallelFields \cup DocumentedSerialFields, {} }
        holed == { f \ {k} : f \in full, k \in ParallelFields \cup DocumentedSerialFields
                                                 \cup SerialFieldsRead }
    IN { f \cup other : f \in full \cup holed, other \in { {}, { << "input_ids" >> } } }

BatchNext ==
    \/ \E representation \in Representations : Register(representation)
    \/ FinishConstruction
    \/ /\ pc = "idle"
       /\ \E inputs \in BatchInputs : BatchProcessUnitLocation(inputs)

BatchSpec == Init /\ [][BatchNext]_vars

(* ------------------------------ find_alignment ------------------------ *)
\* The training loop: for every epoch and every batch of the dataloader,
\* _batch_process_unit_location, one forward call with one source, the loss,
\* and the gated update.  The loop position is training.at = "loop" together
\* with pc: "idle" between two batches, the pending invocation while the
\* forward call of a batch runs, "done" when it has ended.
\* an update that also fires on the first batch of an accumulation run
OptimizerStepAtWindowStart(gradient_accumulation_steps, total_step) ==
    total_step % gradient_accumulation_steps = 0

\* lines 941-942: the batch at global index total_step ends with
\* loss.backward(), optimizer.step(), scheduler.step()
OptimizerStepAt(gradient_accumulation_steps, total_step) ==
    /\ total_step % gradient_accumulation_steps = 0
    /\ ~ (gradient_accumulation_steps > 1 /\ total_step = 0)

\* the batches the dataloader may yield: the location fields of the
\* registered descriptors, as parallel or as serial mode names them, or none
TrainBatches ==
    { fields \cup { << "input_ids" >> } :
        fields \in { ParallelFields, DocumentedSerialFields, {} } }

\* an exception leaves find_alignment
TrainingRaises(error) ==
    training' = [training EXCEPT !.at = "raised", !.error = error]

\* lines 881-912: find_alignment is called; kwargs and the dataloader are
\* read, remove_forward_hooks(self.model), and the loop begins
FindAlignment(gradient_accumulation_steps, epochs, batches) ==
    /\ pc = "idle"
    /\ training.at = "none"
    /\ training' = [NoTraining EXCEPT
                       !.at = "loop",
                       !.gradient_accumulation_steps = gradient_accumulation_steps,
                       !.epochs = epochs,
                       !.batches = batches]
    /\ hooks' = remove_forward_hooks(hooks)
    /\ UNCHANGED << pc, mode, alignable_representations, key_collision_counter,
                    sorted_alignable_keys, is_generation, intervene_on_prompt,
                    key_getter_call_counter, key_setter_call_counter,
                    own_activations, activations_sources, activations_is_sources,
                    call, written, runs, outcome >>

\* lines 914-925: the next batch is taken, its locations are preprocessed
\* and self(base, [source], unit_location_dict) runs up to its first
\* opaque-model invocation
TrainBatch ==
    /\ pc = "idle"
    /\ training.at = "loop"
    /\ \E inputs \in TrainBatches : \E r \in BatchOutcomes(inputs) :
          IF r.error # None
          THEN /\ TrainingRaises(r.error)
               /\ UNCHANGED << pc, mode, alignable_representations,
                               key_collision_counter, sorted_alignable_keys,
                               is_generation, intervene_on_prompt,
                               key_getter_call_counter, key_setter_call_counter,
                               hooks, own_activations, activations_sources,
                               activations_is_sources, call, written, runs,
                               outcome >>
          ELSE Call([NoCall EXCEPT !.fn = "forward", !.has_sources = TRUE,
                                   !.sources = 1,
                                   !.locs = { Join(k) : k \in DOMAIN r.ret }])

\* lines 926-948: the forward call of the batch has ended; metrics and
\* loss, then the gated update and total_step += 1, and the loops advance
TrainStep ==
    /\ pc = "done"
    /\ training.at = "loop"
    /\ IF outcome.status = "raised"
       THEN /\ TrainingRaises(outcome.error)
            /\ UNCHANGED << pc, runs, outcome, written >>
       ELSE LET t == training.total_step
                last_batch == training.step + 1 = training.batches
                last_epoch == training.epoch + 1 = training.epochs
            IN /\ training' =
                      [training EXCEPT
                          !.updates =
                              IF OptimizerStepAt(training.gradient_accumulation_steps, t)
                              THEN Append(@, t) ELSE @,
                          !.total_step = t + 1,
                          !.step = IF last_batch THEN 0 ELSE @ + 1,
                          !.epoch = IF last_batch THEN @ + 1 ELSE @,
                          !.at = IF last_batch /\ last_epoch THEN "returned" ELSE @]
               /\ pc' = "idle"
               /\ runs' = << >>
               /\ outcome' = NoOutcome
               /\ written' = {}
    /\ UNCHANGED << mode, alignable_representations, key_collision_counter,
                    sorted_alignable_keys, is_generation, intervene_on_prompt,
                    key_getter_call_counter, key_setter_call_counter, hooks,
                    own_activations, activations_sources, activations_is_sources,
                    call >>

TrainNext ==
    \/ \E representation \in Representations : Register(representation)
    \/ FinishConstruction
    \/ /\ pc = "idle"
       /\ \E gradient_accumulation_steps \in 1..MaxAccumulation,
             epochs \in 1..MaxEpochs, batches \in 1..MaxBatches :
             FindAlignment(gradient_accumulation_steps, epochs, batches)
    \/ TrainBatch
    \/ BaseRun
    \/ SourceRun
    \/ CounterfactualRun
    \/ TrainStep

TrainSpec == Init /\ [][TrainNext]_vars

(* ================================ claims =============================== *)
\* the call in progress or, once it has ended, the call that ended
CurrentCall == IF pc = "done" THEN outcome.call ELSE call
Returned == pc = "done" /\ outcome.status = "returned"
\* the call intervenes: sources or precomputed activations are given
Intervening(c) == c.has_sources \/ c.acts
\* the setters of all registered points, as the current call registers them
AllSetters == { Hook("setter", k, k) : k \in Range(sorted_alignable_keys) }
AllCountersZero ==
    \A k \in DOMAIN key_getter_call_counter :
        key_getter_call_counter[k] = 0 /\ key_setter_call_counter[k] = 0

\* C1: when forward or generate returns normally, no getter or setter hook
\* registered during that call is still attached to the opaque model.
C1_HooksReleasedOnReturn ==
    Returned => \A h \in hooks : ~ h.cur

\* a serial forward call over two points has returned, after its getters and
\* setters were attached during its invocations
C1_Witness ==
    /\ Returned
    /\ outcome.call.fn = "forward" /\ outcome.call.has_sources
    /\ mode = "serial" /\ NumPoints = 2
    /\ \E i \in DOMAIN runs : \E h \in runs[i].hooks : h.kind = "getter"
    /\ \E i \in DOMAIN runs : \E h \in runs[i].hooks : h.kind = "setter"

\* C2: when an opaque-model invocation raises inside forward or generate,
\* no getter or setter hook registered by that call is still attached when
\* the error reaches the caller.
C2_HooksReleasedOnModelError ==
    (pc = "done" /\ outcome.error = "ModelError") => \A h \in hooks : ~ h.cur

\* C3: whatever an earlier call left behind, a call reaches its first
\* opaque-model invocation with no hook attached, an empty activation cache
\* and every getter and setter counter equal to 0.
C3_CleanFirstInvocation ==
    pc \in {"plain", "base"} =>
        /\ hooks = {}
        /\ DOMAIN Activations(Cur) = {}
        /\ AllCountersZero

\* a call stands before its baseline invocation, having found hooks attached,
\* the cache populated, counters non-zero and the generation flag set
C3_Witness ==
    /\ pc = "base"
    /\ call.found.hooks /\ call.found.cache
    /\ call.found.counters /\ call.found.is_generation

\* C4: in forward calls, and generate calls with intervene_on_prompt=True,
\* every cache entry a setter callback reads exists and was written during
\* the same top-level call.
C4_CacheIsolation ==
    (CurrentCall.fn = "forward" \/ CurrentCall.intervene_on_prompt) =>
        \A i \in DOMAIN runs : \A r \in runs[i].reads : r.present /\ r.fresh

\* setters have read the cache in a call that found the cache populated by
\* an earlier call
C4_Witness ==
    /\ CurrentCall.fn = "forward"
    /\ CurrentCall.found.cache
    /\ \E i \in DOMAIN runs : Cardinality(runs[i].reads) = 2

\* C5: forward(base) without sources and without activations_sources
\* invokes the opaque model exactly once, on base, with no hook attached,
\* returns (that output, None) and registers no getter or setter.
C5_PassThrough ==
    LET c == CurrentCall IN
    (c.fn = "forward" /\ ~ Intervening(c)) =>
        /\ \A h \in hooks : ~ h.cur
        /\ pc = "plain" => (runs = << >> /\ hooks = {})
        /\ pc = "done" =>
              /\ Len(runs) = 1
              /\ runs[1].on = "base" /\ runs[1].hooks = {}
              /\ outcome.status = "returned" =>
                     outcome.ret = << [on |-> "base", edits |-> {}], NoOutput >>

\* a pass-through forward has returned in a call that found hooks attached
C5_Witness ==
    /\ Returned
    /\ outcome.call.fn = "forward" /\ ~ Intervening(outcome.call)
    /\ outcome.call.found.hooks

\* two descriptors address the same point
SameAddress(a, b) ==
    /\ a.alignable_layer = b.alignable_layer
    /\ a.alignable_representation_type = b.alignable_representation_type
    /\ a.alignable_unit = b.alignable_unit
    /\ a.max_number_of_units = b.max_number_of_units

\* C6: the keys of the registered descriptors are pairwise distinct, and the
\* k-th registration (k = 0, 1, ...) among those with the same (layer,
\* representation kind, unit, max_units) has the key
\* "layer.L.repr.R.unit.U.nunit.N#k".
C6_KeyUniqueness ==
    LET reg == alignable_representations IN
    /\ \A i, j \in DOMAIN reg : i # j => reg[i].key # reg[j].key
    /\ \A i \in DOMAIN reg :
          reg[i].key =
              "layer." \o ToString(reg[i].rep.alignable_layer)
              \o ".repr." \o reg[i].rep.alignable_representation_type
              \o ".unit." \o reg[i].rep.alignable_unit
              \o ".nunit." \o ToString(reg[i].rep.max_number_of_units)
              \o "#" \o ToString(Cardinality(
                     { j \in 1..(i - 1) : SameAddress(reg[j].rep, reg[i].rep) }))

\* two descriptors that collide have been registered
C6_Witness ==
    /\ Len(alignable_representations) = 2
    /\ SameAddress(alignable_representations[1].rep, alignable_representations[2].rep)

\* the number of sources or, without sources, of entries of the mapping the
\* caller passed differs from the number of registered points
CountMismatch(c) ==
    \/ c.has_sources /\ c.sources # NumPoints
    \/ ~ c.has_sources /\ c.acts /\ Cardinality(c.passed) # NumPoints

\* C7: a forward or generate call whose number of sources (or, when sources
\* is None, of precomputed activation entries) differs from the number of
\* registered points fails with an error, before the opaque model has been
\* invoked and before any hook has been attached.
C7_CountValidation ==
    (pc \notin {"construct", "idle"} /\ CountMismatch(CurrentCall)) =>
        /\ pc = "done"
        /\ outcome.status = "raised" /\ outcome.error = "AssertionError"
        /\ runs = << >>
        /\ hooks = {}

\* a call given precomputed activations with one entry too many has ended,
\* after an earlier call had left hooks attached
C7_Witness ==
    /\ pc = "done"
    /\ ~ outcome.call.has_sources /\ outcome.call.acts
    /\ Cardinality(outcome.call.passed) = NumPoints + 1
    /\ outcome.call.found.hooks

\* C8: a forward call in parallel mode whose location map lacks
\* "sources->base" is rejected, and a forward call in serial mode whose
\* location map contains "sources->base" is rejected, with sources given and
\* with precomputed activations_sources given.
C8_LocationKeyValidation ==
    LET c == CurrentCall IN
    (/\ pc = "done" /\ c.fn = "forward" /\ Intervening(c)
     /\ \/ mode = "parallel" /\ "sources->base" \notin c.locs
        \/ mode = "serial" /\ "sources->base" \in c.locs)
    => outcome.status = "raised"

\* C9: in a forward call with sources or precomputed activations the
\* returned base output comes from exactly one invocation on base, made
\* after cleanup and before any getter or setter of the call is attached: no
\* hook fires during it and it writes nothing to the cache or the counters.
C9_BaselineRun ==
    LET c == CurrentCall IN
    (c.fn = "forward" /\ Intervening(c)) =>
        /\ pc = "base" => (runs = << >> /\ hooks = {})
        /\ runs # << >> =>
              /\ runs[1].on = "base"
              /\ runs[1].hooks = {} /\ runs[1].reads = {} /\ runs[1].out = {}
              /\ runs[1].after = runs[1].before
              /\ \A i \in 2..Len(runs) : runs[i].hooks # {}
        /\ pc \in {"source", "cf"} =>
              call.base_outputs = [on |-> "base", edits |-> {}]
        /\ Returned => outcome.ret[1] = [on |-> "base", edits |-> {}]

\* an intervening forward call has returned in a call that found hooks
\* attached and the cache populated
C9_Witness ==
    /\ Returned
    /\ outcome.call.fn = "forward" /\ outcome.call.has_sources
    /\ outcome.call.found.hooks /\ outcome.call.found.cache

\* the invocations of the current call during which a setter was attached
RunsWithSetter == { i \in DOMAIN runs : \E h \in runs[i].hooks : h.kind = "setter" }

\* C10: in a forward call in parallel mode the setters of all N points are
\* attached together after all captures, the opaque model is then invoked
\* exactly once on base with all N setters and no getter attached, and the
\* setters are detached after that invocation and not before.
C10_ParallelInjection ==
    LET c == CurrentCall IN
    (mode = "parallel" /\ c.fn = "forward" /\ Intervening(c)) =>
        /\ pc \in {"base", "source"} => \A h \in hooks : h.kind # "setter"
        /\ pc \in {"base", "source"} => RunsWithSetter = {}
        /\ pc = "cf" =>
              /\ hooks = AllSetters
              /\ RunsWithSetter = {}
              /\ ~ c.acts => Len(runs) = 1 + NumPoints
        /\ Returned =>
              /\ RunsWithSetter = {Len(runs)}
              /\ runs[Len(runs)].on = "base"
              /\ runs[Len(runs)].hooks = AllSetters
              /\ hooks = {}

\* a parallel forward call over two points with sources has returned
C10_Witness ==
    /\ Returned
    /\ mode = "parallel" /\ NumPoints = 2
    /\ outcome.call.fn = "forward"
    /\ outcome.call.has_sources /\ ~ outcome.call.acts

\* what the getter of the point at position i (1-based) of
\* sorted_alignable_keys caches from sources[i-1] when nothing else is attached
CapturedAlone(i) ==
    [origin |-> "getter", src |-> SourceName(i - 1), under |-> {}]

\* C11: in parallel mode with sources, the run of sources[i] has exactly one
\* hook attached, the getter of point i, and no setter; it changes no other
\* cache entry, and the value cached for point i is a function of sources[i]
\* alone, so it is the same in two calls that differ only in another point's
\* source, locations or subspace.
C11_ParallelIndependence ==
    LET c == CurrentCall IN
    (mode = "parallel" /\ c.has_sources /\ ~ c.acts) =>
        /\ \A n \in DOMAIN runs : n >= 2 /\ n <= NumPoints + 1 =>
              LET k == sorted_alignable_keys[n - 1] IN
              /\ runs[n].on = SourceName(n - 2)
              /\ runs[n].hooks = { Hook("getter", k, k) }
              /\ runs[n].reads = {}
              /\ \A j \in DOMAIN runs[n].after.activations :
                    IF j = k
                    THEN runs[n].after.activations[j] = CapturedAlone(n - 1)
                    ELSE /\ j \in DOMAIN runs[n].before.activations
                         /\ runs[n].after.activations[j] = runs[n].before.activations[j]
              /\ (c.fn = "forward" /\ ~ runs[n].raised) =>
                    k \in DOMAIN runs[n].after.activations
        /\ (pc = "cf" /\ c.fn = "forward") =>
              \A i \in 1..NumPoints :
                  Activations(Cur)[sorted_alignable_keys[i]] = CapturedAlone(i)

\* a parallel forward call over two points has captured both activations, in
\* a call that found the cache populated by an earlier call
C11_Witness ==
    /\ pc = "cf" /\ mode = "parallel" /\ NumPoints = 2
    /\ call.fn = "forward" /\ call.has_sources /\ ~ call.acts
    /\ call.found.cache
    /\ Len(runs) = 3

\* C12: in serial mode with sources, for every i >= 1 the run of sources[i]
\* happens with the setter of point i-1 and the getter of point i attached,
\* points taken in the order of sorted_alignable_keys; the cache then already
\* holds point i-1's entry captured from sources[i-1], the setter reads that
\* entry during the run, the capture of point i is made under its edit, and
\* the setter of point i-1 is no longer attached at the next invocation.
C12_SerialChaining ==
    LET c == CurrentCall IN
    (mode = "serial" /\ c.has_sources /\ ~ c.acts) =>
        /\ (pc = "source" /\ call.key_i >= 1) =>
              hooks = { Hook("setter", sorted_alignable_keys[call.key_i],
                             sorted_alignable_keys[call.key_i]),
                        Hook("getter", sorted_alignable_keys[call.key_i + 1],
                             sorted_alignable_keys[call.key_i + 1]) }
        /\ \A n \in DOMAIN runs : n >= 3 /\ n <= NumPoints + 1 =>
              LET i == n - 2
                  prev == sorted_alignable_keys[i]
                  this == sorted_alignable_keys[i + 1]
              IN /\ runs[n].on = SourceName(i)
                 /\ runs[n].hooks = { Hook("setter", prev, prev),
                                      Hook("getter", this, this) }
                 /\ prev \in DOMAIN runs[n].before.activations
                 /\ runs[n].before.activations[prev].origin = "getter"
                 /\ runs[n].before.activations[prev].src = SourceName(i - 1)
                 /\ ~ runs[n].raised =>
                       /\ \E r \in runs[n].reads :
                             /\ r.key = prev /\ r.present
                             /\ r.value = runs[n].before.activations[prev]
                       /\ runs[n].after.activations[this] =
                              [origin |-> "getter", src |-> SourceName(i),
                               under |-> {prev}]
                 /\ n < Len(runs) =>
                       Hook("setter", prev, prev) \notin runs[n + 1].hooks

\* a serial forward call over two points has made the run of sources[1] and
\* stands before its counterfactual run
C12_Witness ==
    /\ pc = "cf" /\ mode = "serial" /\ NumPoints = 2
    /\ call.fn = "forward" /\ call.has_sources /\ ~ call.acts
    /\ Len(runs) = 3 /\ ~ runs[3].raised

\* the location map is the one the mode asks for
ValidLocations(c) ==
    IF mode = "parallel" THEN "sources->base" \in c.locs
    ELSE c.locs = SerialLocationKeys
\* a call with as many sources as points, no precomputed activations and a
\* valid location map
ValidSourcesCall(c) ==
    /\ c.has_sources /\ ~ c.acts /\ c.sources = NumPoints
    /\ ValidLocations(c)

\* C13: a generate call with a valid list of sources, a valid location map
\* and intervene_on_prompt=True, during which the opaque model does not
\* raise, returns (base_output, counterfactual_output) after a baseline
\* generation with no hook attached and a counterfactual generation with the
\* setters attached, and leaves no setter attached.
C13_GenerateCompletes ==
    LET c == CurrentCall IN
    (/\ pc = "done" /\ c.fn = "generate" /\ ValidSourcesCall(c)
     /\ c.intervene_on_prompt
     /\ outcome.error # "ModelError")
    => /\ outcome.status = "returned"
       /\ runs[1].generate /\ runs[1].hooks = {}
       /\ runs[Len(runs)].generate
       /\ \E h \in runs[Len(runs)].hooks : h.kind = "setter"
       /\ hooks = {}

\* C14: a generate call with intervene_on_prompt=False and otherwise valid
\* sources and location map, during which the opaque model does not raise,
\* completes and returns (base_output, counterfactual_output); it never ends
\* with an error.
C14_StepInterventionCompletes ==
    LET c == CurrentCall IN
    (/\ pc = "done" /\ c.fn = "generate" /\ ValidSourcesCall(c)
     /\ ~ c.intervene_on_prompt
     /\ outcome.error # "ModelError")
    => /\ outcome.status = "returned"
       /\ outcome.ret[1].on = "base" /\ outcome.ret[2].on = "base"

\* C15: when an active setter callback fires for a key that has no cache
\* entry, the run raises and the call ends with KeyError without any value
\* being patched in for that key; and in parallel mode with precomputed
\* activations, a registered key missing from activations_sources ends the
\* call with an error before any setter is attached.
C15_CacheMissFailsLoudly ==
    LET c == CurrentCall IN
    /\ \A n \in DOMAIN runs : \A r \in runs[n].reads : ~ r.present =>
          /\ runs[n].raised
          /\ \A e \in runs[n].out : e.key # r.key
          /\ n = Len(runs) /\ pc = "done"
          /\ outcome.status = "raised" /\ outcome.error = "KeyError"
    /\ ~ is_generation =>
          \A n \in DOMAIN runs : \A h \in runs[n].hooks :
              (h.kind = "setter" /\ h.key \notin DOMAIN runs[n].before.activations
               /\ \A g \in runs[n].hooks : g.kind # "getter") =>
                  /\ runs[n].raised
                  /\ \A e \in runs[n].out : e.key # h.key
    /\ (/\ pc \in {"plain", "base", "source", "cf", "done"}
        /\ mode = "parallel" /\ c.acts
        /\ \E k \in RegisteredKeys : k \notin c.passed) =>
          /\ pc \in {"base", "done"}
          /\ pc = "done" =>
                /\ outcome.status = "raised"
                /\ outcome.error \in {"AssertionError", "ModelError"}
          /\ \A h \in hooks : h.kind # "setter"
          /\ RunsWithSetter = {}

\* outside generation mode, the setter of a key the cache holds no entry for
\* (while it holds another key's) has fired and the run has ended
C15_Witness ==
    /\ pc = "done" /\ ~ is_generation
    /\ Len(runs) = 1
    /\ DOMAIN runs[1].before.activations # {}
    /\ \E r \in runs[1].reads : ~ r.present

\* _batch_process_unit_location has been applied
BatchDone == pc = "done" /\ outcome.call.fn = "_batch_process_unit_location"
\* the fields of the batch that are locations
LocationFields(inputs) == { k \in inputs : Contains(k, "->") }

\* C16: in serial mode, on an input holding the documented fields
\* ("source_i->source_{i+1}.<side>.<level>" for every point but the last,
\* "source_{N-1}->base.<side>.<level>" for the last),
\* _batch_process_unit_location returns a map whose keys are exactly the
\* location keys serial forward looks up.
C16_SerialBatchCompatible ==
    (/\ BatchDone /\ mode = "serial"
     /\ LocationFields(outcome.call.inputs) = DocumentedSerialFields)
    => /\ outcome.status = "returned"
       /\ { Join(k) : k \in DOMAIN outcome.ret } = SerialLocationKeys

\* the levels of a unit spec, in its order
LevelsOf(unit) == IF unit = "h.pos" THEN << "h", "pos" >> ELSE << unit >>
\* "source_<i>->base.<side>.<level>"
ParallelField(i, side, level) ==
    << "source", "_", ToString(i), "->", "base", ".", ToString(side), ".", level >>
\* what the claim says entry i (0-based) of one side holds
ParallelEntry(i, side) ==
    LET levels == LevelsOf(alignable_representations[i + 1].rep.alignable_unit)
    IN IF Len(levels) = 1
       THEN [kind |-> "batch", of |-> ParallelField(i, side, levels[1]), items |-> << >>]
       ELSE [kind |-> "list", of |-> << >>,
             items |-> [j \in DOMAIN levels |->
                          [kind |-> "batch", of |-> ParallelField(i, side, levels[j]),
                           items |-> << >>]]]
\* every field the registered points' unit specs need is in the input
ParallelFieldsPresent(inputs) ==
    \A i \in 0..(Len(alignable_representations) - 1) :
        \A side \in {0, 1} :
            \A level \in Range(LevelsOf(alignable_representations[i + 1].rep.alignable_unit)) :
                ParallelField(i, side, level) \in inputs

\* C17: in parallel mode with N registered points, on a data batch holding
\* every field the unit specs need, _batch_process_unit_location returns a
\* map with the single key "sources->base" whose value is a pair of lists of
\* length N; entry i is inputs["source_i->base.<side>.<u>"] itself when point
\* i's unit spec has one level u and the list of the per-level entries in
\* unit-spec order when it has several; when a required field is absent the
\* operation fails.
C17_ParallelBatch ==
    (BatchDone /\ mode = "parallel")
    => IF ParallelFieldsPresent(outcome.call.inputs)
       THEN /\ outcome.status = "returned"
            /\ { Join(k) : k \in DOMAIN outcome.ret } = { "sources->base" }
            /\ \A k \in DOMAIN outcome.ret :
                  /\ Len(outcome.ret[k]) = 2
                  /\ \A side \in {0, 1} :
                        /\ Len(outcome.ret[k][side + 1]) = Len(alignable_representations)
                        /\ \A i \in 0..(Len(alignable_representations) - 1) :
                              outcome.ret[k][side + 1][i + 1] = ParallelEntry(i, side)
       ELSE outcome.status = "raised"
\* C17 on the batches that hold no other location field than those of the
\* form "source_i->base.<side>.<level>": there the statement holds.
C17_OnParallelFieldsOnly ==
    (/\ BatchDone
     /\ \A k \in LocationFields(outcome.call.inputs) :
           \E i \in 0..MaxPoints, side \in {0, 1}, level \in {"h", "pos"} :
               k = ParallelField(i, side, level))
    => C17_ParallelBatch

\* the setters attached to the opaque model
SettersAttached == { h \in hooks : h.kind = "setter" }

\* C18: in serial mode, with sources and with precomputed
\* activations_sources, at most one setter is attached at any time during a
\* call, and when the counterfactual run on base starts exactly one setter is
\* attached, the one of the last point of sorted_alignable_keys.
C18_OneSetterInSerial ==
    (mode = "serial" /\ pc \in {"base", "source", "cf"} /\ Intervening(call)) =>
        /\ Cardinality(SettersAttached) <= 1
        /\ pc = "cf" =>
              SettersAttached =
                  { Hook("setter", sorted_alignable_keys[NumPoints],
                         sorted_alignable_keys[NumPoints]) }
\* run n is the first of the call during which hook h is attached
FirstInvocation(n, h) == \A j \in 1..(n - 1) : h \notin runs[j].hooks
\* the counter of hook h's key before and after run n
CounterBefore(n, h) ==
    IF h.kind = "getter" THEN runs[n].before.getter_counter[h.key]
    ELSE runs[n].before.setter_counter[h.key]
CounterAfter(n, h) ==
    IF h.kind = "getter" THEN runs[n].after.getter_counter[h.key]
    ELSE runs[n].after.setter_counter[h.key]
\* during run n the callback h gathered and cached (getter), or read the
\* cache to transform and scatter (setter)
Acted(n, h) ==
    IF h.kind = "getter"
    THEN /\ h.key \in DOMAIN runs[n].after.activations
         /\ runs[n].after.activations[h.key].origin = "getter"
         /\ runs[n].after.activations[h.key].src = runs[n].on
    ELSE /\ \E r \in runs[n].reads : r.key = h.key
         /\ runs[n].raised \/ \E e \in runs[n].out : e.key = h.key
\* during run n the callback h did nothing but return
NoOp(n, h) ==
    /\ runs[n].after.activations = runs[n].before.activations
    /\ runs[n].reads = {} /\ runs[n].out = {} /\ ~ runs[n].raised
\* the runs made in generation mode in which a hook fired exactly once
GatedRuns ==
    { n \in DOMAIN runs :
        /\ is_generation /\ Cardinality(runs[n].hooks) = 1
        /\ ~ runs[n].generate
        /\ runs[n].raised => runs[n].reads # {} }

\* C19: in generation mode with intervene_on_prompt=True, a getter or
\* setter callback acts on its first invocation of the call, taking its
\* key's counter from 0 to 1, and is a no-op on every later invocation; the
\* counter never exceeds 1.
C19_PromptOnlyGating ==
    (is_generation /\ intervene_on_prompt = TRUE) =>
        /\ \A k \in RegisteredKeys :
              key_getter_call_counter[k] <= 1 /\ key_setter_call_counter[k] <= 1
        /\ \A n \in GatedRuns : \A h \in runs[n].hooks :
              IF FirstInvocation(n, h)
              THEN /\ Acted(n, h)
                   /\ CounterBefore(n, h) = 0 /\ CounterAfter(n, h) = 1
              ELSE /\ NoOp(n, h)
                   /\ CounterBefore(n, h) = 1 /\ CounterAfter(n, h) = 1

\* in generation mode with intervene_on_prompt=True the setter of a cached
\* key has been invoked as often as the opaque model may run its module
C19_Witness ==
    /\ pc = "hooked" /\ is_generation /\ intervene_on_prompt = TRUE
    /\ Len(runs) = MaxHookCalls
    /\ \E h \in hooks : h.kind = "setter" /\ h.key \in DOMAIN own_activations

\* C20: in generation mode a getter callback is a no-op only when
\* intervene_on_prompt=True and the invocation is not the first one; in every
\* other case, the first invocation with intervene_on_prompt=False included,
\* it increments its key's counter and gathers and caches the activation.
C20_GetterNoOpOnlyAfterPrompt ==
    \A n \in GatedRuns : \A h \in runs[n].hooks :
        h.kind = "getter" =>
            IF intervene_on_prompt = TRUE /\ ~ FirstInvocation(n, h)
            THEN NoOp(n, h)
            ELSE /\ CounterAfter(n, h) = CounterBefore(n, h) + 1
                 /\ Acted(n, h)

\* every counter of a counter map is 0
CountersZero(counter) == \A k \in DOMAIN counter : counter[k] = 0

\* C21: during a forward call, whatever generate calls preceded it, every
\* invocation of a getter gathers and caches, every invocation of a setter
\* reads the cache and edits, and both counter maps are all-zero throughout.
C21_GatingInertInForward ==
    (pc \in {"plain", "base", "source", "cf", "done"} /\ CurrentCall.fn = "forward") =>
        /\ AllCountersZero
        /\ \A n \in DOMAIN runs :
              /\ CountersZero(runs[n].before.getter_counter)
              /\ CountersZero(runs[n].before.setter_counter)
              /\ CountersZero(runs[n].after.getter_counter)
              /\ CountersZero(runs[n].after.setter_counter)
              /\ ~ runs[n].raised => \A h \in runs[n].hooks : Acted(n, h)

\* a forward call that found the generation flag set and a counter non-zero,
\* left by a failed generate call, has returned after its getters and its
\* setters fired
C21_Witness ==
    /\ Returned /\ outcome.call.fn = "forward"
    /\ outcome.call.found.is_generation /\ outcome.call.found.counters
    /\ \E n \in DOMAIN runs : \E h \in runs[n].hooks : h.kind = "getter"
    /\ \E n \in DOMAIN runs : \E h \in runs[n].hooks : h.kind = "setter"

\* a generate call is in progress
GenerateInProgress ==
    pc \in {"plain", "base", "source", "cf"} /\ call.fn = "generate"

\* C22: the generation-mode flag is false whenever no generate call is in
\* progress, in particular after generate has returned on any path, the
\* early return without sources and activations_sources included.
C22_GenerationFlagScoped ==
    ~ GenerateInProgress => ~ is_generation

\* C23: a forward call in serial mode whose location map has as many
\* entries as there are points but lacks a per-pair key serial mode looks up
\* is rejected before the opaque model is invoked on any input and before
\* any getter or setter is attached.
C23_SerialLocationKeysFailFast ==
    LET c == CurrentCall IN
    (/\ pc = "done" /\ mode = "serial" /\ c.fn = "forward" /\ Intervening(c)
     /\ Cardinality(c.locs) = NumPoints
     /\ ~ (SerialLocationKeys \subseteq c.locs))
    => /\ outcome.status = "raised"
       /\ runs = << >>
       /\ \A h \in hooks : ~ h.cur

\* the getters among a set of hooks
GettersOf(hs) == { h \in hs : h.kind = "getter" }
\* the getter the call attaches for its i-th point (1-based)
GetterOfPoint(i) ==
    Hook("getter", sorted_alignable_keys[i], sorted_alignable_keys[i])

\* C24: in both modes every getter is attached for exactly one opaque-model
\* invocation, the run of its own source, and is detached before the next
\* one; no getter is attached during the baseline or counterfactual run on
\* base; the getter and the setter of one key are never attached together;
\* with precomputed activations_sources no getter is registered and the
\* model never runs on a source.
C24_GetterLifetime ==
    /\ \A n \in DOMAIN runs :
          /\ runs[n].on = "base" => GettersOf(runs[n].hooks) = {}
          /\ \A i \in 1..NumPoints :
                runs[n].on = SourceName(i - 1) =>
                    /\ GettersOf(runs[n].hooks) = {GetterOfPoint(i)}
                    /\ \A j \in DOMAIN runs :
                          j # n => GetterOfPoint(i) \notin runs[j].hooks
    /\ pc \in {"plain", "base", "cf"} => GettersOf(hooks) = {}
    /\ pc = "source" => GettersOf(hooks) = {GetterOfPoint(call.key_i + 1)}
    /\ \A g \in hooks, h \in hooks :
          (g.kind = "getter" /\ h.kind = "setter") => g.at # h.at
    /\ (pc \in {"base", "source", "cf", "done"} /\ CurrentCall.acts) =>
          /\ GettersOf(hooks) = {}
          /\ \A n \in DOMAIN runs :
                runs[n].on = "base" /\ GettersOf(runs[n].hooks) = {}

\* a call over two points has returned after the run of each source, each
\* with a getter attached, and the counterfactual run with setters attached
C24_Witness ==
    /\ Returned /\ outcome.call.has_sources /\ NumPoints = 2
    /\ \E n \in DOMAIN runs :
          runs[n].on = SourceName(0) /\ GettersOf(runs[n].hooks) # {}
    /\ \E n \in DOMAIN runs :
          runs[n].on = SourceName(1) /\ GettersOf(runs[n].hooks) # {}
    /\ \E n \in DOMAIN runs :
          runs[n].on = "base" /\ runs[n].hooks # {}

\* the location entry (side 0: source, side 1: base) forward reads for its
\* i-th point (1-based) from the map _batch_process_unit_location returned:
\* unit_locations["sources->base"][side][i] in parallel mode,
\* unit_locations[key of pair i][side][0] in serial mode
LocationEntry(i, side) ==
    IF mode = "parallel"
    THEN outcome.ret[<< "sources", "->", "base" >>][side + 1][i]
    ELSE outcome.ret[DocumentedSerialPrefix(i - 1)][side + 1].items[1]
\* the "source_i->..." prefix of point i (1-based)
PairPrefix(i) ==
    IF mode = "parallel" THEN ParallelPrefix(i - 1) ELSE DocumentedSerialPrefix(i - 1)

\* C25: for every i, the i-th location entry _batch_process_unit_location
\* returns is built from the "source_i->..." fields and shaped by the unit
\* of the descriptor of sorted_alignable_keys[i], the point forward pairs
\* with index i, whatever the registration order of the descriptors.
C25_BatchIndexAlignment ==
    (BatchDone /\ outcome.status = "returned") =>
        \A i \in 1..NumPoints : \A side \in {0, 1} :
            LocationEntry(i, side) =
                SubLocAggr(PairPrefix(i), side, RepOf(sorted_alignable_keys[i]))

\* a mapping as the caller builds it, with the given keys
CallerMapping(keys) ==
    [k \in keys |-> [origin |-> "caller", src |-> k, under |-> {}]]
\* the call that received the caller's mapping still finds in it what the
\* caller passed
ReceivedMappingIntact ==
    (pc \in {"base", "source", "cf", "done"} /\ CurrentCall.acts) =>
        activations_sources = CallerMapping(CurrentCall.passed)
\* a later call that is not given the mapping leaves it as it is
LaterCallLeavesMapping ==
    (pc = "idle" /\ activations_is_sources /\ ~ (CurrentCall.acts)') =>
        activations_sources' = activations_sources

\* C26: a mapping the caller supplied as activations_sources is never
\* changed by the orchestrator: not by the forward or generate call that
\* receives it, and not by a later call on the same orchestrator, the
\* cleanup of that later call included.
C26_CallerMappingReadOnly ==
    /\ [] ReceivedMappingIntact
    /\ [][LaterCallLeavesMapping]_vars

\* the global batch indices find_alignment has finished
BatchesProcessed == 0..(training.total_step - 1)

\* C27: in find_alignment with gradient_accumulation_steps = g > 1 no
\* optimizer step is applied at batch index 0 nor at any index below g, and
\* the optimizer steps are exactly those at the processed global batch
\* indices that are positive multiples of g; with g = 1 every processed
\* batch, index 0 included, ends with an optimizer step.
C27_UpdateGating ==
    LET g == training.gradient_accumulation_steps
        stepped == Range(training.updates)
    IN training.at # "none" =>
        /\ Len(training.updates) = Cardinality(stepped)
        /\ IF g > 1
           THEN /\ stepped = { t \in BatchesProcessed : t > 0 /\ t % g = 0 }
                /\ \A t \in stepped : t >= g
           ELSE stepped = BatchesProcessed

\* find_alignment has returned after a run with g = 2 that went through
\* every batch of every epoch and applied an optimizer step
C27_Witness ==
    /\ training.at = "returned"
    /\ training.gradient_accumulation_steps = 2
    /\ training.total_step = MaxEpochs * MaxBatches
    /\ Len(training.updates) >= 2

\* C28: when _intervention_getter or _intervention_setter is given a list
\* of several keys, the callback registered on the module of the i-th key
\* caches under the i-th key (getter) or reads the cache entry of the i-th
\* key and edits with it (setter), not those of another key of the list.
C28_CallbackBoundToOwnKey ==
    (pc \in {"hooked", "done"} /\ ~ is_generation) =>
        \A n \in DOMAIN runs : ~ runs[n].raised =>
            \A h \in runs[n].hooks :
                IF h.kind = "getter"
                THEN /\ h.at \in DOMAIN runs[n].after.activations
                     /\ runs[n].after.activations[h.at].origin = "getter"
                ELSE /\ \E r \in runs[n].reads : r.key = h.at
                     /\ \E e \in runs[n].out : e.at = h.at /\ e.key = h.at
====
